---- MODULE Spec2Model ----
(***************************************************************************)
(* State-machine model of the trading bot orchestrator of src/main.py:     *)
(* main(), its signal_handler, and TradingBot.initialize, run,             *)
(* run_analysis_cycle, collect_and_analyze_data, handle_signal,            *)
(* send_signal_notification and shutdown.                                  *)
(*                                                                         *)
(* Task 0 is the coroutine main(); tasks 1..MaxSignals are the tasks that  *)
(* signal_handler creates with asyncio.create_task(bot.shutdown()).        *)
(* pc[t] is the call task t is about to make.  Every collaborator call     *)
(* (data collector, data storage, indicators, strategy, notifier) either   *)
(* returns or raises an Exception; the choice is the environment's.        *)
(*                                                                         *)
(* A signal is delivered either while a task is executing bytecode (the    *)
(* SystemExit raised by sys.exit(0) then unwinds that task's frames) or    *)
(* while the event loop itself is executing (the SystemExit then leaves    *)
(* the loop, and asyncio.run cancels every task before it closes the       *)
(* loop).  Neither SystemExit nor CancelledError is an Exception (Python   *)
(* 3.8 and later), so no "except Exception" clause of main.py catches      *)
(* them.  KeyboardInterrupt is not modelled: main() replaces the SIGINT     *)
(* handler before its try block, so the interpreter never raises it there. *)
(***************************************************************************)
EXTENDS Integers, Sequences, FiniteSets, TLC

\* ---------------------------------------------------------------- bounds
NumSymbols == 2
MaxCycles == 2
MaxLen == 3
MaxElapsed == 4
MaxSignals == 2

\* ------------------------------------------------------------- settings
\* settings.strategy_config['min_data_points']
MinDataPoints == 2
\* settings.trading_config['analysis_interval'], in clock ticks
AnalysisInterval == 3

\* settings.trading_config['symbols'], by position in the declared order
Symbols == 1..NumSymbols

MainTask == 0
HandlerTasks == 1..MaxSignals
Tasks == {MainTask} \cup HandlerTasks

\* A fetch returns None (NoData) or a frame of 0..MaxLen bars.
NoData == -1
FetchResults == {NoData} \cup (0..MaxLen)

\* The reading of (datetime.now() - start_time): the wall clock may have
\* been set back during the cycle, hence the negative value.
ElapsedValues == (-1)..MaxElapsed

VARIABLES
    pc,         \* pc[t]: the step task t is about to take
    phase,      \* "run": loop.run_until_complete(main()); "cleanup":
                \* asyncio.run cancelling the tasks; "ended": process over
    bot,        \* main()'s local `bot` is assigned
    running,    \* TradingBot.running
    exitCode,   \* argument of the SystemExit in flight, -1 when none
    nsig,       \* signals delivered so far
    cycle,      \* number of the cycle in progress (0 before the first)
    symIdx,     \* position of the current symbol in the cycle
    data,       \* result of the fetch of the current invocation
    inv,        \* record of the current collect_and_analyze_data call
    cyc,        \* record of the current cycle
    sd,         \* sd[t]: record of task t's invocation of shutdown()
    initLog,    \* the calls initialize() made, in order, with outcomes
    intr,       \* where the main task was when the first signal arrived
    runState,   \* how far run() has got: "none", "entered", "returned"
                \* (normally), "raised" (an Exception left it) or "unwound"
                \* (a SystemExit or a CancelledError left it)
    closed,     \* the collaborators whose close has been called
    late,       \* the calls made to a collaborator after its close
    tg          \* a call of src/notifications/telegram.py (NotifierSpec)

\* The variables of the orchestrator of src/main.py.
botVars == <<pc, phase, bot, running, exitCode, nsig, cycle, symIdx, data,
             inv, cyc, sd, initLog, intr, runState, closed, late>>

vars == <<botVars, tg>>

\* ------------------------------------------------------------ records
\* calls: the collaborator calls of the invocation, in order; failed: those
\* that raised; state: "active", "returned" (normal return), "raised" (an
\* Exception left the coroutine) or "aborted" (SystemExit or CancelledError
\* unwound it); hs: the same for the handle_signal call, "none" if not made;
\* signal: what the strategy returned, "unset" before it has returned.
NewInv(s) ==
    [sym |-> s, calls |-> <<>>, failed |-> {}, state |-> "active",
     hs |-> "none", signal |-> "unset"]

NoInv == [NewInv(0) EXCEPT !.state = "none"]

\* invoked: the symbols collect_and_analyze_data was called for, in order;
\* elapsed: cycle_duration; sleepTime: sleep_time; sleeps: the durations
\* passed to the end-of-cycle asyncio.sleep; warned: overrun warnings logged;
\* loopAlert: outcome of the alert of run()'s handler, "none" if not sent.
NewCyc(n) ==
    [n |-> n, invoked |-> <<>>, fetchFailed |-> {}, elapsed |-> 0,
     sleepTime |-> 0, sleeps |-> <<>>, warned |-> 0, loopAlert |-> "none",
     state |-> "active"]

NoCyc == [NewCyc(0) EXCEPT !.state = "none"]

\* calls: the calls the invocation of shutdown() made, in order; failed:
\* those that raised; state: "none", "active", "returned" or "aborted".
NoShutdown == [state |-> "none", calls |-> <<>>, failed |-> {}]

NewShutdown == [NoShutdown EXCEPT !.state = "active"]

\* No call of TelegramNotifier (src/notifications/telegram.py) in progress.
TgIdle == [pc |-> "idle", op |-> "none", keys |-> {}, transport |-> "ok",
           posts |-> 0]

BotInit ==
    /\ pc = [t \in Tasks |-> IF t = MainTask THEN "start" ELSE "absent"]
    /\ phase = "run"
    /\ bot = FALSE
    /\ running = FALSE
    /\ exitCode = -1
    /\ nsig = 0
    /\ cycle = 0
    /\ symIdx = 0
    /\ data = NoData
    /\ inv = NoInv
    /\ cyc = NoCyc
    /\ sd = [t \in Tasks |-> NoShutdown]
    /\ initLog = <<>>
    /\ intr = [at |-> "none", cycle |-> 0, sym |-> 0]
    /\ runState = "none"
    /\ closed = {}
    /\ late = {}

Init == BotInit /\ tg = TgIdle

\* ------------------------------------------------------------ helpers
Range(q) == {q[i] : i \in 1..Len(q)}

Count(q, c) == Cardinality({i \in 1..Len(q) : q[i] = c})

TryPcs ==
    {"start", "init_storage", "init_notifier", "init_notify", "loop_check",
     "fetch", "store_data", "tdi", "boll", "strategy", "store_signal",
     "notify", "alert", "sym_sleep", "cycle_end", "cycle_sleep",
     "loop_alert"}

\* Steps that run without suspending: a signal cannot find the event loop
\* executing while the main task is at one of them.
SyncPcs == {"start", "tdi", "boll", "strategy", "loop_check", "cycle_end"}

ShutdownPcs == {"sd_notify", "sd_close_tg", "sd_close_ds"}

Abort(r) == IF r.state = "active" THEN [r EXCEPT !.state = "aborted"] ELSE r

AbortInv(r) ==
    [Abort(r) EXCEPT !.hs = IF @ = "active" THEN "aborted" ELSE @]

Called(r, c) == [r EXCEPT !.calls = Append(@, c)]

Raised(r, c) == [r EXCEPT !.calls = Append(@, c), !.failed = @ \cup {c}]

\* Lines 191-194 exchanged: the notifier is closed before the shutdown
\* notification is sent through it.
ShutdownOrderCloseFirst == <<"sd_close_tg", "sd_notify", "sd_close_ds">>

\* TradingBot.shutdown, lines 191-195: the awaits, in program order.
ShutdownOrder == <<"sd_notify", "sd_close_tg", "sd_close_ds">>

\* The finally clause of main() with a shutdown() that leaves the running
\* flag as it is (line 188 missing).
MainFinallyKeepsRunning(code) ==
    /\ exitCode' = code
    /\ IF bot
       THEN /\ pc' = [pc EXCEPT ![MainTask] = ShutdownOrder[1]]
            /\ sd' = [sd EXCEPT ![MainTask] = NewShutdown]
            /\ UNCHANGED <<running, phase>>
       ELSE /\ pc' = [pc EXCEPT ![MainTask] = "done"]
            /\ phase' = "ended"
            /\ UNCHANGED <<running, sd>>

\* main(), lines 224-226: the finally clause.  With `bot` assigned it calls
\* bot.shutdown(), which logs, clears the running flag (lines 187-188) and
\* reaches its first await, the shutdown notification; otherwise main() is
\* over, and the process with it.
MainFinally(code) ==
    /\ exitCode' = code
    /\ IF bot
       THEN /\ pc' = [pc EXCEPT ![MainTask] = ShutdownOrder[1]]
            /\ running' = FALSE
            /\ sd' = [sd EXCEPT ![MainTask] = NewShutdown]
            /\ phase' = phase
       ELSE /\ pc' = [pc EXCEPT ![MainTask] = "done"]
            /\ phase' = "ended"
            /\ UNCHANGED <<running, sd>>

MainAt(p) == phase \in {"run", "cleanup"} /\ pc[MainTask] = p

\* The steps of run(), lines 159-183.
RunPcs ==
    {"loop_check", "fetch", "store_data", "tdi", "boll", "strategy",
     "store_signal", "notify", "alert", "sym_sleep", "cycle_end",
     "cycle_sleep", "loop_alert"}

\* The steps that call telegram_notifier.send_message (lines 61, 102, 148,
\* 182, 191) and those that call data_storage.store_market_data or
\* store_signal (lines 86, 118).
NotifierCalls == {"init_notify", "notify", "alert", "loop_alert", "sd_notify"}

StorageCalls == {"store_data", "store_signal"}

\* The tasks whose step this is: a task calls what its new pc names.
Movers == {t \in Tasks : pc'[t] # pc[t]}

\* Bookkeeping common to every step of the orchestrator: the closes called
\* (lines 194-195), the calls made to a collaborator already closed, and
\* how run() was left: by the return after line 165, by the raise of line
\* 183, or by the SystemExit of line 208 (or the cancellation it causes).
Frame ==
    /\ closed' = closed
                  \cup {"tg" : t \in {u \in Movers : pc'[u] = "sd_close_tg"}}
                  \cup {"ds" : t \in {u \in Movers : pc'[u] = "sd_close_ds"}}
    /\ late' = late \cup
         {pc'[t] : t \in {u \in Movers :
                             \/ pc'[u] \in NotifierCalls /\ "tg" \in closed
                             \/ pc'[u] \in StorageCalls /\ "ds" \in closed}}
    /\ runState' =
         IF runState = "none" /\ pc'[MainTask] \in RunPcs THEN "entered"
         ELSE IF runState = "entered" /\ pc'[MainTask] \notin RunPcs
         THEN (IF nsig' # nsig THEN "unwound"
               ELSE IF pc[MainTask] = "loop_alert" THEN "raised"
               ELSE "returned")
         ELSE runState
    /\ UNCHANGED tg

\* ------------------------------------------------------------- startup
\* Lines 55-58 exchanged: the notifier is initialized before the storage.
InitOrderSwapped == <<"init_notifier", "init_storage", "init_notify">>

\* TradingBot.initialize, lines 55-63: the awaits, in program order.
InitOrder == <<"init_storage", "init_notifier", "init_notify">>

\* main(), line 215: bot = TradingBot().  If the constructor raises, `bot`
\* stays None: lines 221-223 call sys.exit(1) and the finally clause finds
\* no bot to shut down.
Construct ==
    /\ MainAt("start")
    /\ \/ /\ bot' = TRUE
          /\ pc' = [pc EXCEPT ![MainTask] = InitOrder[1]]
          /\ UNCHANGED <<phase, exitCode>>
       \/ /\ bot' = FALSE
          /\ pc' = [pc EXCEPT ![MainTask] = "done"]
          /\ phase' = "ended"
          /\ exitCode' = 1
    /\ UNCHANGED <<running, nsig, cycle, symIdx, data, inv, cyc, sd,
                   initLog, intr>>
    /\ Frame

\* TradingBot.initialize, and main() lines 216-217 and 221-223.  A step that
\* raises is logged and re-raised (lines 67-69); main() turns it into
\* sys.exit(1) and its finally clause runs.  After the startup notification
\* run() is entered and sets the running flag (line 161).
Initialize ==
    /\ phase = "run"
    /\ \E k \in 1..Len(InitOrder) :
         /\ pc[MainTask] = InitOrder[k]
         /\ \/ /\ initLog' = Append(initLog, <<InitOrder[k], "ok">>)
               /\ IF k < Len(InitOrder)
                  THEN /\ pc' = [pc EXCEPT ![MainTask] = InitOrder[k + 1]]
                       /\ UNCHANGED running
                  ELSE /\ pc' = [pc EXCEPT ![MainTask] = "loop_check"]
                       /\ running' = TRUE
               /\ UNCHANGED <<phase, exitCode, sd>>
            \/ /\ initLog' = Append(initLog, <<InitOrder[k], "raise">>)
               /\ MainFinally(1)
    /\ UNCHANGED <<bot, nsig, cycle, symIdx, data, inv, cyc, intr>>
    /\ Frame

\* ----------------------------------------------------------- scheduler
\* The call of collect_and_analyze_data for the symbol at position s
\* (run_analysis_cycle, lines 155-156).
StartSymbol(c, s) ==
    /\ symIdx' = s
    /\ inv' = NewInv(s)
    /\ data' = NoData
    /\ cyc' = [c EXCEPT !.invoked = Append(@, s)]
    /\ pc' = [pc EXCEPT ![MainTask] = "fetch"]

\* TradingBot.run, lines 165-168: the test of the running flag, and the
\* start of a cycle.  When the flag is clear run() returns, main()'s try
\* block ends and its finally clause runs.
LoopCheck ==
    /\ MainAt("loop_check")
    /\ IF running
       THEN /\ cycle < MaxCycles
            /\ cycle' = cycle + 1
            /\ StartSymbol(NewCyc(cycle + 1), 1)
            /\ UNCHANGED <<phase, running, exitCode, sd>>
       ELSE /\ MainFinally(exitCode)
            /\ UNCHANGED <<cycle, symIdx, data, inv, cyc>>
    /\ UNCHANGED <<bot, nsig, initLog, intr>>
    /\ Frame

\* run_analysis_cycle, line 157 and the loop of line 155: the delay after
\* a symbol, then the next symbol, or the end of the cycle.
SymSleep ==
    /\ MainAt("sym_sleep")
    /\ IF symIdx < NumSymbols
       THEN StartSymbol(cyc, symIdx + 1)
       ELSE /\ pc' = [pc EXCEPT ![MainTask] = "cycle_end"]
            /\ UNCHANGED <<symIdx, data, inv, cyc>>
    /\ UNCHANGED <<phase, bot, running, exitCode, nsig, cycle, sd, initLog,
                   intr>>
    /\ Frame

\* Line 172 without the subtraction: the loop sleeps the whole interval.
SleepTimeFullInterval(elapsed) == AnalysisInterval

\* TradingBot.run, line 172.
SleepTime(elapsed) ==
    IF AnalysisInterval - elapsed > 0 THEN AnalysisInterval - elapsed ELSE 0

\* TradingBot.run, lines 171-178: the cadence computation.
CycleEnd ==
    /\ MainAt("cycle_end")
    /\ \E e \in ElapsedValues :
         LET st == SleepTime(e) IN
         IF st > 0
         THEN /\ cyc' = [cyc EXCEPT !.elapsed = e, !.sleepTime = st,
                                    !.state = "complete"]
              /\ pc' = [pc EXCEPT ![MainTask] = "cycle_sleep"]
         ELSE /\ cyc' = [cyc EXCEPT !.elapsed = e, !.sleepTime = st,
                                    !.warned = @ + 1, !.state = "complete"]
              /\ pc' = [pc EXCEPT ![MainTask] = "loop_check"]
    /\ UNCHANGED <<phase, bot, running, exitCode, nsig, cycle, symIdx, data,
                   inv, sd, initLog, intr>>
    /\ Frame

\* TradingBot.run, line 176: the end-of-cycle sleep returns.
CycleSleep ==
    /\ MainAt("cycle_sleep")
    /\ cyc' = [cyc EXCEPT !.sleeps = Append(@, cyc.sleepTime)]
    /\ pc' = [pc EXCEPT ![MainTask] = "loop_check"]
    /\ UNCHANGED <<phase, bot, running, exitCode, nsig, cycle, symIdx, data,
                   inv, sd, initLog, intr>>
    /\ Frame

\* TradingBot.run, lines 180-183, and main() lines 221-223: an Exception
\* that left the cycle is logged, an alert is sent (it returns or raises;
\* either way an Exception leaves run()), main() calls sys.exit(1) and its
\* finally clause runs.
LoopAlert ==
    /\ MainAt("loop_alert")
    /\ \E o \in {"ok", "raise"} : cyc' = [cyc EXCEPT !.loopAlert = o]
    /\ MainFinally(1)
    /\ UNCHANGED <<bot, nsig, cycle, symIdx, data, inv, initLog, intr>>
    /\ Frame

\* ------------------------------------------------------------ pipeline
\* Line 81 with the length test off by one: a frame one bar short passes.
InsufficientOffByOne(d) == d = NoData \/ d < MinDataPoints - 1

\* collect_and_analyze_data, line 81.
Insufficient(d) == d = NoData \/ d < MinDataPoints

\* collect_and_analyze_data returns normally (to run_analysis_cycle, whose
\* next step is the inter-symbol delay of line 157).
Return(r) ==
    /\ inv' = [r EXCEPT !.state = "returned"]
    /\ pc' = [pc EXCEPT ![MainTask] = "sym_sleep"]

\* An Exception raised inside the try block of collect_and_analyze_data by
\* call c: control moves to the handler of lines 100-104, whose alert is
\* the next call.
Handle(r, c) ==
    /\ inv' = Raised(r, c)
    /\ pc' = [pc EXCEPT ![MainTask] = "alert"]

\* collect_and_analyze_data, lines 75-83: the fetch and the length test.
Fetch ==
    /\ MainAt("fetch")
    /\ \/ /\ Handle(inv, "fetch")
          /\ cyc' = [cyc EXCEPT !.fetchFailed = @ \cup {symIdx}]
          /\ UNCHANGED data
       \/ \E d \in FetchResults :
             /\ data' = d
             /\ IF Insufficient(d)
                THEN Return(Called(inv, "fetch"))
                ELSE /\ inv' = Called(inv, "fetch")
                     /\ pc' = [pc EXCEPT ![MainTask] = "store_data"]
             /\ UNCHANGED cyc
    /\ UNCHANGED <<phase, bot, running, exitCode, nsig, cycle, symIdx, sd,
                   initLog, intr>>
    /\ Frame

\* collect_and_analyze_data, line 86.
StoreData ==
    /\ MainAt("store_data")
    /\ \/ /\ inv' = Called(inv, "store_market_data")
          /\ pc' = [pc EXCEPT ![MainTask] = "tdi"]
       \/ Handle(inv, "store_market_data")
    /\ UNCHANGED <<phase, bot, running, exitCode, nsig, cycle, symIdx, data,
                   cyc, sd, initLog, intr>>
    /\ Frame

\* collect_and_analyze_data, lines 89-90: the two indicators.
Indicators ==
    /\ \E step \in {<<"tdi", "boll">>, <<"boll", "strategy">>} :
         /\ MainAt(step[1])
         /\ \/ /\ inv' = Called(inv, step[1])
               /\ pc' = [pc EXCEPT ![MainTask] = step[2]]
            \/ Handle(inv, step[1])
    /\ UNCHANGED <<phase, bot, running, exitCode, nsig, cycle, symIdx, data,
                   cyc, sd, initLog, intr>>
    /\ Frame

\* collect_and_analyze_data, lines 93-98: the strategy returns a signal (the
\* call of handle_signal follows), returns none, or raises.
Strategy ==
    /\ MainAt("strategy")
    /\ \/ /\ inv' = [Called(inv, "strategy") EXCEPT !.hs = "active",
                                                   !.signal = "yes"]
          /\ pc' = [pc EXCEPT ![MainTask] = "store_signal"]
       \/ Return([Called(inv, "strategy") EXCEPT !.signal = "no"])
       \/ Handle(inv, "strategy")
    /\ UNCHANGED <<phase, bot, running, exitCode, nsig, cycle, symIdx, data,
                   cyc, sd, initLog, intr>>
    /\ Frame

\* handle_signal, lines 108-124, up to store_signal: reading the price and
\* the timestamp may raise before the call; store_signal returns or raises.
\* The handler of lines 123-124 logs and handle_signal returns, and with it
\* collect_and_analyze_data.
StoreSignal ==
    /\ MainAt("store_signal")
    /\ \/ Return([inv EXCEPT !.hs = "returned", !.failed = @ \cup {"price"}])
       \/ /\ inv' = Called(inv, "store_signal")
          /\ pc' = [pc EXCEPT ![MainTask] = "notify"]
       \/ Return([Raised(inv, "store_signal") EXCEPT !.hs = "returned"])
    /\ UNCHANGED <<phase, bot, running, exitCode, nsig, cycle, symIdx, data,
                   cyc, sd, initLog, intr>>
    /\ Frame

\* send_signal_notification with the send of line 148 made twice.
NotifyTwice ==
    /\ MainAt("notify")
    /\ Return([Called(Called(inv, "send_signal"), "send_signal")
                  EXCEPT !.hs = "returned"])
    /\ UNCHANGED <<phase, bot, running, exitCode, nsig, cycle, symIdx, data,
                   cyc, sd, initLog, intr>>
    /\ Frame

\* send_signal_notification, lines 128-151: building the message may raise
\* before the send; the send returns or raises.  The handler of lines
\* 150-151 logs; handle_signal and collect_and_analyze_data return.
Notify ==
    /\ MainAt("notify")
    /\ \/ Return([inv EXCEPT !.hs = "returned", !.failed = @ \cup {"format"}])
       \/ Return([Called(inv, "send_signal") EXCEPT !.hs = "returned"])
       \/ Return([Raised(inv, "send_signal") EXCEPT !.hs = "returned"])
    /\ UNCHANGED <<phase, bot, running, exitCode, nsig, cycle, symIdx, data,
                   cyc, sd, initLog, intr>>
    /\ Frame

\* collect_and_analyze_data, lines 100-104: the error alert.  If the send
\* raises, the Exception leaves collect_and_analyze_data and
\* run_analysis_cycle and reaches the handler of run(), line 180.
Alert ==
    /\ MainAt("alert")
    /\ \/ /\ Return(Called(inv, "alert"))
          /\ UNCHANGED cyc
       \/ /\ inv' = [Raised(inv, "alert") EXCEPT !.state = "raised"]
          /\ cyc' = Abort(cyc)
          /\ pc' = [pc EXCEPT ![MainTask] = "loop_alert"]
    /\ UNCHANGED <<phase, bot, running, exitCode, nsig, cycle, symIdx, data,
                   sd, initLog, intr>>
    /\ Frame

\* ------------------------------------------------------------ shutdown
\* A task created by signal_handler runs while the main task is suspended.
MainSuspended == pc[MainTask] \notin SyncPcs

\* A task created by signal_handler (line 207) has not taken its first
\* step.  The event loop runs its callbacks in the order they were
\* scheduled, and the created task was scheduled before the main task
\* could suspend in the call it makes next: with that call suspending
\* (each collaborator call is a suspension point), the created task's
\* first step comes before the main task resumes.
FirstStepPending == \E h \in HandlerTasks : pc[h] = "sd_start"

\* shutdown() returns in task t.  In the main task it was called from the
\* finally clause of main(): main() is over, by the exception in flight or
\* by a normal return, and the process ends.
ShutdownReturns(t, r) ==
    /\ sd' = [sd EXCEPT ![t] = [r EXCEPT !.state = "returned"]]
    /\ pc' = [pc EXCEPT ![t] = "done"]
    /\ IF t = MainTask
       THEN /\ phase' = "ended"
            /\ exitCode' = IF exitCode = -1 THEN 0 ELSE exitCode
       ELSE UNCHANGED <<phase, exitCode>>

\* TradingBot.shutdown, lines 187-188, in a task created by signal_handler
\* (line 207): its first step logs and clears the running flag.
ShutdownStart(t) ==
    /\ phase = "run"
    /\ t \in HandlerTasks
    /\ pc[t] = "sd_start"
    /\ MainSuspended
    /\ running' = FALSE
    /\ sd' = [sd EXCEPT ![t] = NewShutdown]
    /\ pc' = [pc EXCEPT ![t] = ShutdownOrder[1]]
    /\ UNCHANGED <<phase, bot, exitCode, nsig, cycle, symIdx, data, inv,
                   cyc, initLog, intr>>
    /\ Frame

\* TradingBot.shutdown, lines 190-197: one try block around the shutdown
\* notification, the close of the notifier and the close of the storage.
\* The first call that raises ends the block: the handler logs and
\* shutdown() returns.
ShutdownStep(t) ==
    /\ phase \in {"run", "cleanup"}
    /\ IF t = MainTask THEN ~FirstStepPending ELSE MainSuspended
    /\ \E k \in 1..Len(ShutdownOrder) :
         /\ pc[t] = ShutdownOrder[k]
         /\ \/ IF k < Len(ShutdownOrder)
               THEN /\ sd' = [sd EXCEPT ![t] = Called(@, ShutdownOrder[k])]
                    /\ pc' = [pc EXCEPT ![t] = ShutdownOrder[k + 1]]
                    /\ UNCHANGED <<phase, exitCode>>
               ELSE ShutdownReturns(t, Called(sd[t], ShutdownOrder[k]))
            \/ ShutdownReturns(t, Raised(sd[t], ShutdownOrder[k]))
    /\ UNCHANGED <<bot, running, nsig, cycle, symIdx, data, inv, cyc,
                   initLog, intr>>
    /\ Frame

\* ------------------------------------------------------------- signals
Live(t) ==
    IF t = MainTask THEN pc[t] # "done"
    ELSE pc[t] \in {"sd_start"} \cup {ShutdownOrder[k] : k \in 1..3}

\* signal_handler, lines 205-207: with `bot` assigned a task running
\* bot.shutdown() is created; it is scheduled, not yet started.
Created(h, started) ==
    IF bot THEN (IF started THEN "sd_start" ELSE "cancelled") ELSE "absent"

NoteSignal ==
    /\ nsig' = nsig + 1
    /\ intr' = IF nsig = 0
               THEN [at |-> pc[MainTask], cycle |-> cycle, sym |-> symIdx]
               ELSE intr

\* The SystemExit of line 208 leaves the event loop while
\* loop.run_until_complete(main()) is running: asyncio.run cancels every
\* task.  A task that has not started never runs; a task suspended inside
\* shutdown() is unwound by the CancelledError; the main task, suspended
\* inside its try block, is unwound to the finally clause of main(), which
\* calls shutdown().  `gone` is the task the SystemExit came out of, if any.
CancelAll(h, gone) ==
    /\ exitCode' = 0
    /\ pc' = [t \in Tasks |->
                IF t = h THEN Created(h, FALSE)
                ELSE IF t = MainTask
                THEN (IF pc[t] \in TryPcs THEN ShutdownOrder[1] ELSE "done")
                ELSE IF t = gone THEN "done"
                ELSE IF Live(t) THEN "cancelled" ELSE pc[t]]
    /\ sd' = [t \in Tasks |->
                IF t = MainTask /\ pc[t] \in TryPcs THEN NewShutdown
                ELSE Abort(sd[t])]
    /\ running' = IF pc[MainTask] \in TryPcs THEN FALSE ELSE running
    /\ phase' = IF pc[MainTask] \in TryPcs THEN "cleanup" ELSE "ended"
    /\ inv' = AbortInv(inv)
    /\ cyc' = Abort(cyc)

\* The process ends at once: the SystemExit of line 208 leaves asyncio.run
\* while it is cancelling the tasks, or leaves main() from inside its
\* finally clause.
EndNow(h) ==
    /\ exitCode' = 0
    /\ pc' = [t \in Tasks |->
                IF t = h THEN Created(h, FALSE)
                ELSE IF t = MainTask THEN "done" ELSE pc[t]]
    /\ sd' = [t \in Tasks |-> Abort(sd[t])]
    /\ phase' = "ended"
    /\ UNCHANGED <<running, inv, cyc>>

\* signal_handler, lines 204-208, run while task t is executing: the
\* SystemExit of sys.exit(0) unwinds the frames of t.
\*  - t is main(), inside its try block: no handler of lines 100, 123, 150,
\*    180, 219 or 221 catches it; the finally clause of main() runs, and the
\*    event loop goes on, with the task just created in it.
\*  - t is main(), inside shutdown() called from its finally clause: the
\*    SystemExit leaves main() and the process ends.
\*  - t is a task created by an earlier signal: the SystemExit leaves the
\*    event loop.
SignalInTask(t) ==
    /\ phase \in {"run", "cleanup"}
    /\ nsig < MaxSignals
    /\ Live(t)
    /\ t = MainTask \/ (phase = "run" /\ MainSuspended)
    /\ NoteSignal
    /\ LET h == nsig + 1 IN
       IF t = MainTask
       THEN IF pc[t] \in TryPcs
            THEN /\ exitCode' = 0
                 /\ pc' = [pc EXCEPT
                             ![MainTask] = IF bot THEN ShutdownOrder[1]
                                           ELSE "done",
                             ![h] = Created(h, TRUE)]
                 /\ sd' = [sd EXCEPT
                             ![MainTask] = IF bot THEN NewShutdown ELSE @]
                 /\ running' = IF bot THEN FALSE ELSE running
                 /\ phase' = IF bot THEN phase ELSE "ended"
                 /\ inv' = AbortInv(inv)
                 /\ cyc' = Abort(cyc)
            ELSE EndNow(h)
       ELSE CancelAll(h, t)
    /\ UNCHANGED <<bot, cycle, symIdx, data, initLog>>
    /\ Frame

\* signal_handler, lines 204-208, run while the event loop is executing
\* (every task is suspended or not yet started).
SignalInLoop ==
    /\ phase \in {"run", "cleanup"}
    /\ nsig < MaxSignals
    /\ MainSuspended
    /\ NoteSignal
    /\ LET h == nsig + 1 IN
       IF phase = "run" THEN CancelAll(h, MainTask) ELSE EndNow(h)
    /\ UNCHANGED <<bot, cycle, symIdx, data, initLog>>
    /\ Frame

\* ------------------------------------------- src/notifications/telegram.py
\* The keys of `signal` that send_signal reads, lines 14-25.
SignalKeys ==
    {"type", "entry", "stop_loss", "take_profit", "risk_factor",
     "tdi_value", "time"}

\* What requests.post does, line 38: it returns a response (whatever the
\* HTTP status: the response is not looked at), or raises when the request
\* cannot be made (no connection, timeout).
Transports == {"ok", "http_error", "conn_error"}

\* A call of send_signal(signal, symbol, timeframe) or of
\* _send_message(text), about to start: the keys `signal` has, and what the
\* transport will do.
TgInit ==
    /\ BotInit
    /\ tg \in [pc : {"idle"}, op : {"send_signal", "send_message"},
                keys : SUBSET SignalKeys, transport : Transports,
                posts : {0}]

\* TelegramNotifier.send_signal, lines 13-29: the message is built from the
\* keys of `signal` (a missing key raises KeyError), then _send_message is
\* called.  Nothing is caught.
TgSendSignal ==
    /\ tg.pc = "idle" /\ tg.op = "send_signal"
    /\ tg' = [tg EXCEPT !.pc = IF SignalKeys \subseteq tg.keys THEN "post"
                                ELSE "raised"]
    /\ UNCHANGED botVars

\* TelegramNotifier._send_message, lines 31-38: one requests.post, inside no
\* try block: what it raises reaches the caller (of _send_message, and of
\* send_signal through line 29).
TgSendMessage ==
    /\ \/ tg.pc = "idle" /\ tg.op = "send_message"
       \/ tg.pc = "post"
    /\ tg' = [tg EXCEPT !.posts = @ + 1,
                        !.pc = IF tg.transport = "conn_error" THEN "raised"
                               ELSE "returned"]
    /\ UNCHANGED botVars

TgNext == TgSendSignal \/ TgSendMessage

NotifierSpec == TgInit /\ [][TgNext]_vars

\* -------------------------------------------------------- specification
Next ==
    \/ Construct
    \/ Initialize
    \/ LoopCheck
    \/ Fetch
    \/ StoreData
    \/ Indicators
    \/ Strategy
    \/ StoreSignal
    \/ Notify
    \/ Alert
    \/ SymSleep
    \/ CycleEnd
    \/ CycleSleep
    \/ LoopAlert
    \/ \E t \in Tasks : ShutdownStart(t)
    \/ \E t \in Tasks : ShutdownStep(t)
    \/ \E t \in Tasks : SignalInTask(t)
    \/ SignalInLoop

Spec == Init /\ [][Next]_vars

\* ------------------------------------------------------------ typing
TypeOK ==
    /\ phase \in {"run", "cleanup", "ended"}
    /\ bot \in BOOLEAN /\ running \in BOOLEAN
    /\ exitCode \in {-1, 0, 1}
    /\ nsig \in 0..MaxSignals
    /\ cycle \in 0..MaxCycles
    /\ symIdx \in 0..NumSymbols
    /\ data \in FetchResults
    /\ \A t \in Tasks :
         pc[t] \in TryPcs \cup {ShutdownOrder[k] : k \in 1..3}
                  \cup {"absent", "sd_start", "cancelled", "done"}

\* ============================================================== claims
\* The symbols collect_and_analyze_data was invoked for in the current cycle.
Invoked == Range(cyc.invoked)

\* The cycle is over: every symbol was passed, or an exception ended it.
CycleOver == cyc.state \in {"complete", "aborted"}

\* The fetch of the current invocation returned (a frame or None).
Fetched == "fetch" \in Range(inv.calls) /\ "fetch" \notin inv.failed

\* The steps of a cycle in progress.
CyclePcs ==
    {"fetch", "store_data", "tdi", "boll", "strategy", "store_signal",
     "notify", "alert", "sym_sleep"}

\* C1: in a cycle that no signal interrupts, once the cycle is over every
\* symbol that follows a symbol whose fetch raised has had
\* collect_and_analyze_data invoked for it.
C1_FetchFailureIsolated ==
    (nsig = 0 /\ CycleOver) =>
        \A a \in cyc.fetchFailed : \A b \in Symbols : b > a => b \in Invoked

\* C2: no Exception raised by a collaborator, at any step, leaves
\* collect_and_analyze_data.
C2_PipelineNeverRaises == inv.state # "raised"

\* C3: when handle_signal has returned, a store_signal that raised was still
\* followed by the notification send, and a send that raised was preceded
\* by the store_signal call; no Exception left handle_signal.
C3_DispatchIndependent ==
    /\ inv.hs # "raised"
    /\ inv.hs = "returned" =>
         /\ "store_signal" \in inv.failed
              => "send_signal" \in Range(inv.calls)
         /\ "send_signal" \in inv.failed
              => "store_signal" \in Range(inv.calls)

\* C4: every invocation of shutdown() that has returned has called both the
\* close of the notifier and the close of the storage, whatever raised.
C4_ShutdownClosesBoth ==
    \A t \in Tasks :
        sd[t].state = "returned" =>
            {"sd_close_tg", "sd_close_ds"} \subseteq Range(sd[t].calls)

\* The shutdown notifications sent so far, over every invocation.
RECURSIVE NotesUpTo(_)
NotesUpTo(t) ==
    IF t < 0 THEN 0 ELSE Count(sd[t].calls, "sd_notify") + NotesUpTo(t - 1)

ShutdownNotes == NotesUpTo(MaxSignals)

\* C5: when the process has ended with the bot constructed and the
\* shutdown() of main()'s finally clause run to its end, exactly one
\* shutdown notification was sent.
C5_OneShutdownNote ==
    (phase = "ended" /\ bot /\ sd[MainTask].state = "returned") =>
        ShutdownNotes = 1

\* C6 as stated: when collect_and_analyze_data has returned with no
\* collaborator failure, handle_signal was called if and only if the fetch
\* returned a frame of at least min_data_points bars.
C6_DispatchIffEnoughData ==
    (inv.state = "returned" /\ inv.failed = {}) =>
        (inv.hs # "none" <=> (data # NoData /\ data >= MinDataPoints))

\* C6 as amended: handle_signal is called only after a fetch that returned
\* at least min_data_points bars; when no collaborator raised and the fetch
\* returned that many bars, it was called if and only if the strategy
\* returned a signal; after a fetch that returned None or fewer bars the
\* invocation makes no further call at all.
C6_DispatchOnlyWithEnoughData ==
    /\ inv.hs # "none" =>
         Fetched /\ data # NoData /\ data >= MinDataPoints
    /\ (inv.state = "returned" /\ inv.failed = {}
            /\ data # NoData /\ data >= MinDataPoints) =>
         (inv.hs # "none" <=> inv.signal = "yes")
    /\ (Fetched /\ (data = NoData \/ data < MinDataPoints)) =>
         /\ inv.calls = <<"fetch">>
         /\ inv.state = "returned"

\* C6, witness: an invocation returned without dispatch although the frame
\* was long enough, the strategy having returned no signal.
C6_Witness ==
    /\ inv.state = "returned" /\ inv.failed = {} /\ inv.signal = "no"
    /\ data >= MinDataPoints /\ inv.hs = "none"

\* C7: once the symbols of a cycle are passed, sleep_time is
\* max(0, analysis_interval - elapsed); on an overrun the loop does not
\* sleep and has logged one overrun warning; otherwise it logs none and the
\* only sleep it makes lasts analysis_interval - elapsed, and it is back at
\* the test of the running flag only after that sleep.
C7_SleepIsClampedRemainder ==
    cyc.state = "complete" =>
        LET e == cyc.elapsed IN
        /\ cyc.sleepTime =
             IF e >= AnalysisInterval THEN 0 ELSE AnalysisInterval - e
        /\ e >= AnalysisInterval =>
             /\ cyc.sleeps = <<>>
             /\ cyc.warned = 1
             /\ pc[MainTask] # "cycle_sleep"
        /\ e < AnalysisInterval =>
             /\ cyc.warned = 0
             /\ cyc.sleeps \in {<<>>, <<AnalysisInterval - e>>}
             /\ pc[MainTask] = "loop_check" => cyc.sleeps # <<>>

\* C7, witness: a cycle that overran is over, warned once, and the loop is
\* back at the test of the running flag.
C7_Witness ==
    /\ cyc.state = "complete" /\ cyc.elapsed > AnalysisInterval
    /\ cyc.warned = 1 /\ pc[MainTask] = "loop_check"

\* run() has been entered.
RunEntered ==
    \/ cycle > 0
    \/ running
    \/ pc[MainTask] \in CyclePcs \cup
           {"loop_check", "cycle_end", "cycle_sleep", "loop_alert"}

InitFailed == \E i \in 1..Len(initLog) : initLog[i][2] = "raise"

\* C8: initialize() calls the storage initialization, the notifier
\* initialization and the startup notification in that order, each only
\* after the one before it has returned, and sends at most one startup
\* notification; when one of them raises, main() leaves its try block and
\* run() is never entered (no cycle, no fetch); run() is entered only after
\* all three have returned.
C8_StartupOrderedAndFatal ==
    LET order == <<"init_storage", "init_notifier", "init_notify">> IN
    /\ Len(initLog) <= 3
    /\ \A i \in 1..Len(initLog) :
         /\ initLog[i][1] = order[i]
         /\ i < Len(initLog) => initLog[i][2] = "ok"
    /\ \A k \in 1..3 :
         pc[MainTask] = order[k] =>
             initLog = [i \in 1..(k - 1) |-> <<order[i], "ok">>]
    /\ InitFailed =>
         /\ ~RunEntered
         /\ cyc.state = "none" /\ inv.state = "none"
         /\ pc[MainTask] \in {"sd_notify", "sd_close_tg", "sd_close_ds",
                               "done"}
    /\ RunEntered => initLog = [i \in 1..3 |-> <<order[i], "ok">>]

\* C8, witness: the notifier initialization raised after the storage
\* initialization had returned, and the process has ended.
C8_Witness ==
    /\ Len(initLog) = 2 /\ initLog[2] = <<"init_notifier", "raise">>
    /\ phase = "ended"

\* C9: when the process has ended after a signal that arrived while a cycle
\* was in progress, that cycle was completed: every configured symbol was
\* processed in it.
C9_CycleNotPreempted ==
    (phase = "ended" /\ intr.at \in CyclePcs) =>
        (cyc.state = "complete" /\ Invoked = Symbols)

\* C10: at most one invocation of shutdown() ever sends the shutdown
\* notification or closes a collaborator; any other invocation makes no
\* call.
C10_ShutdownIdempotent ==
    \A t \in Tasks : \A u \in Tasks :
        (t # u /\ sd[t].calls # <<>>) => sd[u].calls = <<>>

\* C11: while no signal has been delivered, run(), once entered, is never
\* left, whatever collaborator calls raise: the loop keeps going.
C11_LoopStaysAlive ==
    (nsig = 0 /\ runState # "none") => runState = "entered"

\* C12: when the process has ended, no signal delivered, after an Exception
\* left run(), the shutdown() of main()'s finally clause has run to its
\* return and has called the shutdown notification and both closes.
C12_ShutdownAfterLoopError ==
    (phase = "ended" /\ nsig = 0 /\ runState = "raised") =>
        /\ sd[MainTask].state = "returned"
        /\ {"sd_notify", "sd_close_tg", "sd_close_ds"}
               \subseteq Range(sd[MainTask].calls)

\* C13: when the process has ended, the exit code is non-zero after an
\* initialization step raised or an Exception left run(); it is 0 only
\* after a signal, and a signal that found the bot constructed was followed
\* by a call of shutdown().
C13_ExitCode ==
    phase = "ended" =>
        /\ (InitFailed \/ runState = "raised") => exitCode \notin {-1, 0}
        /\ exitCode = 0 => nsig > 0
        /\ (nsig > 0 /\ bot) => sd[MainTask].state # "none"

\* The lifecycle state, read from where main() is.
Rank ==
    LET p == pc[MainTask] IN
    IF p = "start" THEN 0
    ELSE IF p \in {"init_storage", "init_notifier", "init_notify"} THEN 1
    ELSE IF p \in RunPcs THEN 2
    ELSE IF p \in {"sd_notify", "sd_close_tg", "sd_close_ds"} THEN 3
    ELSE 4

\* C14: the running flag is set only while main() is inside run(), with all
\* three initialization steps returned and no invocation of shutdown()
\* begun (so that, an invocation once begun, it is clear for good); and
\* the lifecycle never moves backwards.
C14_Lifecycle ==
    /\ [](running =>
            /\ Rank = 2
            /\ ~InitFailed /\ Len(initLog) = 3
            /\ \A t \in Tasks : sd[t].state = "none" /\ pc[t] # "sd_notify")
    /\ [](InitFailed => Rank \in {3, 4})
    /\ [][Rank' >= Rank]_vars

\* C14, witness: shutdown() has begun after cycles were run, and the flag
\* is clear.
C14_Witness ==
    /\ cycle > 0 /\ sd[MainTask].state = "active" /\ ~running

\* C15: no call of send_signal or _send_message raises to its caller.
C15_SendNeverRaises == tg.pc # "raised"

\* C16: in a cycle that no signal interrupts, the symbols are invoked in the
\* declared order, each once, and once the cycle is over every configured
\* symbol has been invoked.
C16_EveryCycleAllSymbols ==
    /\ \A i \in 1..Len(cyc.invoked) : cyc.invoked[i] = i
    /\ (nsig = 0 /\ CycleOver) =>
         cyc.invoked = [i \in 1..NumSymbols |-> i]

\* C17: an invocation that has returned with a frame of at least
\* min_data_points bars and nothing raised has made, in this order, the
\* fetch, one store_market_data, the two indicator calls and one strategy
\* call, followed, when the strategy returned a signal, by one store_signal
\* and one notification send, and by nothing when it returned none.
C17_PipelineOrder ==
    LET head == <<"fetch", "store_market_data", "tdi", "boll", "strategy">>
    IN
    /\ (inv.state = "returned" /\ inv.failed = {}
            /\ data # NoData /\ data >= MinDataPoints) =>
         /\ inv.signal = "yes" =>
              inv.calls = head \o <<"store_signal", "send_signal">>
         /\ inv.signal = "no" => inv.calls = head
    /\ inv.signal = "no" =>
         {"store_signal", "send_signal"} \cap Range(inv.calls) = {}

\* C17, witness: an invocation returned after a dispatch with nothing
\* raised.
C17_Witness ==
    /\ inv.state = "returned" /\ inv.failed = {} /\ inv.signal = "yes"
    /\ Len(inv.calls) = 7

\* The calls of an invocation that come before the dispatch.
PreDispatch == {"fetch", "store_market_data", "tdi", "boll", "strategy"}

\* C18: an invocation that is over has sent one error alert if a call
\* before the dispatch raised, and none otherwise (a failure inside the
\* dispatch sends none); and in a cycle that no signal interrupts, once it
\* is over, the symbols after one that sent an alert have been invoked.
C18_AlertOncePerFailure ==
    /\ inv.state \in {"returned", "raised"} =>
         Count(inv.calls, "alert") =
             IF inv.failed \cap PreDispatch # {} THEN 1 ELSE 0
    /\ (nsig = 0 /\ CycleOver /\ "alert" \in Range(inv.calls)) =>
         \A b \in Symbols : b > inv.sym => b \in Invoked

\* C19: when the process has ended after a signal that arrived while run()
\* was executing, run() had returned normally (from the test of the running
\* flag at the cycle boundary).
C19_StopObservedAtBoundary ==
    (phase = "ended" /\ intr.at \in RunPcs) => runState = "returned"

\* C20: no store_market_data or store_signal call is made after
\* data_storage.close() was called, and no send_message call after
\* telegram_notifier.shutdown() was called.
C20_NoUseAfterClose == late = {}

\* C20, witness: two invocations of shutdown(), the one of main()'s finally
\* clause and the one of the task the signal handler created, have both
\* closed the notifier.
C20_Witness ==
    /\ "sd_close_tg" \in Range(sd[MainTask].calls)
    /\ \E h \in HandlerTasks : "sd_close_tg" \in Range(sd[h].calls)

====
